---- MODULE Spec2Model ----
(***************************************************************************)
(* Model of fprime/common/models/serialize/numerical_types.py: the ten     *)
(* fixed-width numerical types (I8..I64, U8..U64, F32, F64), their         *)
(* validate() methods, the width query getSize() and the wire-format query *)
(* get_serialize_format().  The ValueType base class (type_base.py) that   *)
(* stores a validated value is not part of the file and is modelled from   *)
(* the specification.                                                      *)
(***************************************************************************)
EXTENDS Integers, Sequences, FiniteSets, TLC

VARIABLES self, last, first, calls

vars == <<self, last, first, calls>>

(***************************************************************************)
(* Python integers are unbounded.  They are modelled as a sign and a       *)
(* little-endian magnitude of five base-2^16 limbs (enough for 2^64 + k).  *)
(***************************************************************************)
Limbs == 1..5

Radix == 2^16

ZeroMag == [i \in Limbs |-> 0]

BigZero == [neg |-> FALSE, mag |-> ZeroMag]

MagLess(a, b) == \E i \in Limbs : a[i] < b[i] /\ \A j \in Limbs : j > i => a[j] = b[j]

RECURSIVE Carry(_, _, _)
Carry(a, b, i) == IF i = 0 THEN 0 ELSE (a[i] + b[i] + Carry(a, b, i - 1)) \div Radix

MagAdd(a, b) == [i \in Limbs |-> (a[i] + b[i] + Carry(a, b, i - 1)) % Radix]

RECURSIVE Borrow(_, _, _)
Borrow(a, b, i) == IF i = 0 THEN 0 ELSE IF a[i] - b[i] - Borrow(a, b, i - 1) < 0 THEN 1 ELSE 0

MagSub(a, b) == [i \in Limbs |-> (a[i] - b[i] - Borrow(a, b, i - 1) + Radix) % Radix]

BigNorm(x) == IF x.mag = ZeroMag THEN BigZero ELSE x

BigNeg(x) == BigNorm([neg |-> ~x.neg, mag |-> x.mag])

BigAdd(x, y) ==
    IF x.neg = y.neg THEN BigNorm([neg |-> x.neg, mag |-> MagAdd(x.mag, y.mag)])
    ELSE IF MagLess(x.mag, y.mag) THEN BigNorm([neg |-> y.neg, mag |-> MagSub(y.mag, x.mag)])
    ELSE BigNorm([neg |-> x.neg, mag |-> MagSub(x.mag, y.mag)])

\* x - y
BigSub(x, y) == BigAdd(x, BigNeg(y))

\* x < y
BigLess(x, y) ==
    IF x.neg /\ ~y.neg THEN TRUE
    ELSE IF ~x.neg /\ y.neg THEN FALSE
    ELSE IF x.neg THEN MagLess(y.mag, x.mag)
    ELSE MagLess(x.mag, y.mag)

\* 1 << n
BigShl1(n) == [neg |-> FALSE, mag |-> [i \in Limbs |-> IF i = (n \div 16) + 1 THEN 2^(n % 16) ELSE 0]]

\* int(x/2): true division followed by truncation toward zero.  The operand
\* is always a power of two, for which the float quotient is exact.
BigHalf(x) ==
    BigNorm([neg |-> x.neg,
             mag |-> [i \in Limbs |-> (x.mag[i] \div 2)
                        + (IF i < 5 /\ x.mag[i + 1] % 2 = 1 THEN Radix \div 2 ELSE 0)]])

\* a small machine integer as a Python int
BigOfInt(n) ==
    IF n < 0 THEN [neg |-> TRUE, mag |-> [i \in Limbs |-> IF i = 1 THEN -n ELSE 0]]
    ELSE [neg |-> FALSE, mag |-> [i \in Limbs |-> IF i = 1 THEN n ELSE 0]]

(***************************************************************************)
(* Candidate values handed to validate: Python objects of kind int, bool,  *)
(* float or str.  Every candidate carries the same fields.                 *)
(***************************************************************************)
PyInt(x) == [kind |-> "int", neg |-> x.neg, mag |-> x.mag, txt |-> ""]

PyBool(b) == [kind |-> "bool", neg |-> FALSE, mag |-> BigOfInt(IF b THEN 1 ELSE 0).mag, txt |-> ""]

PyFloat(t) == [kind |-> "float", neg |-> FALSE, mag |-> ZeroMag, txt |-> t]

PyStr(t) == [kind |-> "str", neg |-> FALSE, mag |-> ZeroMag, txt |-> t]

None == [kind |-> "none", neg |-> FALSE, mag |-> ZeroMag, txt |-> ""]

(***************************************************************************)
(* Classes.  A class object carries its name as a sequence of characters.  *)
(***************************************************************************)
Class(chars) == [kind |-> "class", chars |-> chars]

Str(chars) == [kind |-> "str", chars |-> chars]

TypeSuffix == <<"T", "y", "p", "e">>

I8Type == Class(<<"I", "8">> \o TypeSuffix)

I16Type == Class(<<"I", "1", "6">> \o TypeSuffix)

I32Type == Class(<<"I", "3", "2">> \o TypeSuffix)

I64Type == Class(<<"I", "6", "4">> \o TypeSuffix)

U8Type == Class(<<"U", "8">> \o TypeSuffix)

U16Type == Class(<<"U", "1", "6">> \o TypeSuffix)

U32Type == Class(<<"U", "3", "2">> \o TypeSuffix)

U64Type == Class(<<"U", "6", "4">> \o TypeSuffix)

F32Type == Class(<<"F", "3", "2">> \o TypeSuffix)

F64Type == Class(<<"F", "6", "4">> \o TypeSuffix)

\* the classes that derive from IntegerType
IntegerType == {I8Type, I16Type, I32Type, I64Type, U8Type, U16Type, U32Type, U64Type, F64Type}

\* the classes that derive from FloatType
FloatType == {F32Type}

ConcreteTypes == IntegerType \cup FloatType

\* how far around each range boundary the integer candidates are sampled
MaxOff == 1

\* how many explicit validate calls are followed on one instance
MaxCalls == 3

\* the bit-width each concrete class declares in its name
DeclaredBits ==
    [cls \in ConcreteTypes |->
        IF cls \in {I8Type, U8Type} THEN 8
        ELSE IF cls \in {I16Type, U16Type} THEN 16
        ELSE IF cls \in {I32Type, U32Type, F32Type} THEN 32
        ELSE 64]

\* the range boundaries of the signed and the unsigned type of w bits
Boundaries(w) == {BigZero, BigNeg(BigShl1(w - 1)), BigShl1(w - 1), BigShl1(w)}

IntCandidates(w) == {PyInt(BigAdd(b, BigOfInt(d))) : b \in Boundaries(w), d \in (0 - MaxOff)..MaxOff}

\* the candidates tried on an instance of each class: integers around the
\* boundaries of the class's width, a bool, two floats and a text value
Candidates ==
    [cls \in ConcreteTypes |->
        IntCandidates(DeclaredBits[cls])
            \cup {PyBool(TRUE), PyFloat("3.14"), PyFloat("inf"), PyStr("abc")}]

\* subclasses of NumericalType whose names do not carry a category in
\* {I, U, F} followed by a bit-width in {8, 16, 32, 64}
OtherTags ==
    {Class(<<"I", "7">> \o TypeSuffix), Class(<<"U", "9", "9">> \o TypeSuffix),
     Class(<<"X", "8">> \o TypeSuffix), Class(<<"I">> \o TypeSuffix),
     Class(<<"U", "1", "2", "8">> \o TypeSuffix), Class(<<"F", "2", "4">> \o TypeSuffix)}

(***************************************************************************)
(* The outcome of a call: the exception it raised ("none" when it          *)
(* returned) and the value it returned.                                    *)
(***************************************************************************)
Return(v) == [exc |-> "none", ret |-> v]

Raise(e, dflt) == [exc |-> e, ret |-> dflt]

(***************************************************************************)
(* BITS_RE = re.compile(r"[IUF](\d\d?)") and its match method.  match      *)
(* anchors at the start of the subject, which must be a string; the group  *)
(* is the one or two digits (greedy) after the category letter.  A match   *)
(* object is the non-empty group, no match (None) the empty sequence.      *)
(***************************************************************************)
Digits == {"0", "1", "2", "3", "4", "5", "6", "7", "8", "9"}

DigitVal(c) ==
    CASE c = "0" -> 0 [] c = "1" -> 1 [] c = "2" -> 2 [] c = "3" -> 3 [] c = "4" -> 4
      [] c = "5" -> 5 [] c = "6" -> 6 [] c = "7" -> 7 [] c = "8" -> 8 [] c = "9" -> 9

BITS_RE_match(x) ==
    IF x.kind # "str" THEN Raise("TypeError", <<>>)
    ELSE LET s == x.chars IN
         IF Len(s) >= 2 /\ s[1] \in {"I", "U", "F"} /\ s[2] \in Digits
         THEN IF Len(s) >= 3 /\ s[3] \in Digits
              THEN Return(<<s[2], s[3]>>)
              ELSE Return(<<s[2]>>)
         ELSE Return(<<>>)

\* int(text) of a non-empty string of decimal digits
RECURSIVE int(_)
int(group) ==
    IF Len(group) = 0 THEN 0
    ELSE 10 * int(SubSeq(group, 1, Len(group) - 1)) + DigitVal(group[Len(group)])

\* NumericalType.__get_bits: a variant that matches the class name
get_bits_of_name(cls) ==
    LET match == BITS_RE_match(Str(cls.chars)) IN
    IF match.exc # "none" THEN Raise(match.exc, -1)
    ELSE IF match.ret = <<>> THEN Raise("AssertionError", -1)
    ELSE Return(int(match.ret))

\* NumericalType.__get_bits: the class object itself is handed to match
get_bits(cls) ==
    LET match == BITS_RE_match(cls) IN
    IF match.exc # "none" THEN Raise(match.exc, -1)
    ELSE IF match.ret = <<>> THEN Raise("AssertionError", -1)
    ELSE Return(int(match.ret))

\* NumericalType.getSize: int(bits/8)
getSize(cls) ==
    LET bits == get_bits(cls) IN
    IF bits.exc # "none" THEN Raise(bits.exc, -1)
    ELSE Return(bits.ret \div 8)

(***************************************************************************)
(* IntegerType.validate and FloatType.validate.                            *)
(***************************************************************************)
\* isinstance(val, int): bool is a subclass of int
isinstance_int(val) == val.kind \in {"int", "bool"}

isinstance_float(val) == val.kind = "float"

\* self.__get_integer_bits(): inside IntegerType the name is mangled to
\* _IntegerType__get_integer_bits, which no class defines
get_integer_bits(obj) == Raise("AttributeError", -1)

\* self.startswith("I"): the instance is not a string and has no such method
startswith(obj, prefix) == Raise("AttributeError", FALSE)

BigOf(val) == [neg |-> val.neg, mag |-> val.mag]

\* a validate that accepts every candidate
validate_accept_all(obj, val) == "none"

IntegerType_validate(obj, val) ==
    IF ~isinstance_int(val) THEN "TypeMismatch"
    ELSE LET bits == get_integer_bits(obj) IN
         IF bits.exc # "none" THEN bits.exc
         ELSE LET shifted == BigShl1(bits.ret)
                  signed == startswith(obj, "I")
              IN IF signed.exc # "none" THEN signed.exc
                 ELSE LET min_val == IF signed.ret THEN BigSub(BigZero, BigHalf(shifted)) ELSE BigZero
                          max_val == IF signed.ret THEN BigSub(shifted, BigHalf(shifted)) ELSE shifted
                      IN IF BigLess(BigOf(val), min_val) \/ ~BigLess(BigOf(val), max_val)
                         THEN "TypeRange"
                         ELSE "none"

FloatType_validate(obj, val) ==
    IF ~isinstance_float(val) THEN "TypeMismatch" ELSE "none"

\* method resolution: the validate of the base the class derives from
validate(obj, val) ==
    IF obj.cls \in IntegerType THEN IntegerType_validate(obj, val)
    ELSE FloatType_validate(obj, val)

(***************************************************************************)
(* get_serialize_format of the ten concrete classes.                       *)
(***************************************************************************)
get_serialize_format(cls) ==
    CASE cls = I8Type -> "b"
      [] cls = I16Type -> ">h"
      [] cls = I32Type -> ">i"
      [] cls = I64Type -> ">q"
      [] cls = U8Type -> "B"
      [] cls = U16Type -> ">H"
      [] cls = U32Type -> ">I"
      [] cls = U64Type -> ">Q"
      [] cls = F32Type -> ">f"
      [] cls = F64Type -> ">d"

(***************************************************************************)
(* State: self is the Value Instance at hand (its class and the value it   *)
(* holds, None when unset); last is the most recent call and its outcome;  *)
(* first is the first validate call made on the instance since it was      *)
(* constructed and calls the number of validate calls made on it.          *)
(***************************************************************************)
Call(op, cls, arg, exc, size, fmt) ==
    [op |-> op, cls |-> cls, arg |-> arg, exc |-> exc, size |-> size, fmt |-> fmt]

NoCall == Call("", I8Type, None, "none", -1, "")

Init ==
    /\ \E cls \in ConcreteTypes :
          /\ self = [cls |-> cls, val |-> None]
          /\ last = Call("construct", cls, None, "none", -1, "")
    /\ first = NoCall
    /\ calls = 0

\* ValueType.__init__(val): a candidate other than None goes through the
\* val setter, which validates it and stores it only when validate returns
Construct(cls, val) ==
    LET obj == [cls |-> cls, val |-> None]
        exc == IF val = None THEN "none" ELSE validate(obj, val)
    IN /\ self' = IF exc = "none" THEN [obj EXCEPT !.val = val] ELSE obj
       /\ last' = Call("construct", cls, val, exc, -1, "")
       /\ first' = NoCall
       /\ calls' = 0

\* ValueType.val setter: validate, then store
SetVal(val) ==
    LET exc == validate(self, val)
    IN /\ self' = IF exc = "none" THEN [self EXCEPT !.val = val] ELSE self
       /\ last' = Call("setval", self.cls, val, exc, -1, "")
       /\ UNCHANGED <<first, calls>>

\* a validate that also keeps the candidate it accepted
Validate_storing(val) ==
    LET exc == validate(self, val)
    IN /\ calls < MaxCalls
       /\ calls' = calls + 1
       /\ last' = Call("validate", self.cls, val, exc, -1, "")
       /\ first' = IF first.op = "" THEN last' ELSE first
       /\ self' = IF exc = "none" THEN [self EXCEPT !.val = val] ELSE self

\* an explicit validate call on the instance
Validate(val) ==
    LET exc == validate(self, val)
    IN /\ calls < MaxCalls
       /\ calls' = calls + 1
       /\ last' = Call("validate", self.cls, val, exc, -1, "")
       /\ first' = IF first.op = "" THEN last' ELSE first
       /\ UNCHANGED self

\* the width query, a class method of any subclass of NumericalType
GetSize(cls) ==
    LET size == getSize(cls)
    IN /\ last' = Call("getSize", cls, None, size.exc, size.ret, "")
       /\ UNCHANGED <<self, first, calls>>

\* a format query that refuses to answer for an instance without a value
GetSerializeFormat_checked ==
    /\ last' = IF self.val = None
               THEN Call("get_serialize_format", self.cls, None, "NotInitialized", -1, "")
               ELSE Call("get_serialize_format", self.cls, None, "none", -1, get_serialize_format(self.cls))
    /\ UNCHANGED <<self, first, calls>>

\* the wire-format query, a static method called through the instance
GetSerializeFormat ==
    /\ last' = Call("get_serialize_format", self.cls, None, "none", -1, get_serialize_format(self.cls))
    /\ UNCHANGED <<self, first, calls>>

Next ==
    \/ \E cls \in ConcreteTypes : \E val \in Candidates[cls] \cup {None} : Construct(cls, val)
    \/ \E val \in Candidates[self.cls] : SetVal(val)
    \/ \E val \in Candidates[self.cls] : Validate(val)
    \/ GetSerializeFormat
    \/ \E cls \in ConcreteTypes \cup OtherTags : GetSize(cls)

Spec == Init /\ [][Next]_vars

(***************************************************************************)
(* Vocabulary of the properties.                                           *)
(***************************************************************************)
SignedTypes == {I8Type, I16Type, I32Type, I64Type}

UnsignedTypes == {U8Type, U16Type, U32Type, U64Type}

IntTypes == SignedTypes \cup UnsignedTypes

\* lo <= v <= hi
Between(lo, v, hi) == ~BigLess(BigOf(v), lo) /\ ~BigLess(hi, BigOf(v))

\* -2^(w-1) <= v <= 2^(w-1) - 1
InSignedRange(w, v) ==
    Between(BigNeg(BigShl1(w - 1)), v, BigSub(BigShl1(w - 1), BigOfInt(1)))

\* 0 <= v <= 2^w - 1
InUnsignedRange(w, v) == Between(BigZero, v, BigSub(BigShl1(w), BigOfInt(1)))

InRangeOf(cls, v) ==
    IF cls \in SignedTypes THEN InSignedRange(DeclaredBits[cls], v)
    ELSE InUnsignedRange(DeclaredBits[cls], v)

\* struct.calcsize of the ten formats
calcsize(fmt) ==
    CASE fmt \in {"b", "B"} -> 1
      [] fmt \in {">h", ">H"} -> 2
      [] fmt \in {">i", ">I", ">f"} -> 4
      [] fmt \in {">q", ">Q", ">d"} -> 8
      [] OTHER -> -1

BigEndianFormats == {">h", ">i", ">q", ">H", ">I", ">Q", ">f", ">d"}

SignedFormats == {"b", ">h", ">i", ">q"}

UnsignedFormats == {"B", ">H", ">I", ">Q"}

FloatFormats == {">f", ">d"}

\* the tags made of a category in {I, U, F} and a bit-width in {8, 16, 32, 64}
RecognizableTags ==
    {Class(<<c>> \o w \o TypeSuffix) :
        c \in {"I", "U", "F"}, w \in {<<"8">>, <<"1", "6">>, <<"3", "2">>, <<"6", "4">>}}

(***************************************************************************)
(* Properties.                                                             *)
(***************************************************************************)
\* C1: a signed integer type of bit-width W accepts an integer candidate v
\* exactly when -2^(W-1) <= v <= 2^(W-1) - 1.
C1_SignedAcceptsIffInRange ==
    (last.op = "validate" /\ last.cls \in SignedTypes /\ last.arg.kind = "int")
        => ((last.exc = "none") <=> InSignedRange(DeclaredBits[last.cls], last.arg))

\* C2: an unsigned integer type of bit-width W accepts an integer candidate v
\* exactly when 0 <= v <= 2^W - 1, and rejects the others with TypeRange.
C2_UnsignedAcceptsIffInRange ==
    (last.op = "validate" /\ last.cls \in UnsignedTypes /\ last.arg.kind = "int")
        => IF InUnsignedRange(DeclaredBits[last.cls], last.arg)
           THEN last.exc = "none"
           ELSE last.exc = "TypeRange"

\* C3: F32 and F64 validate alike: every float candidate is accepted, every
\* other candidate is rejected with TypeMismatch.
C3_FloatTypesValidateAlike ==
    (last.op = "validate" /\ last.cls \in {F32Type, F64Type})
        => last.exc = (IF last.arg.kind = "float" THEN "none" ELSE "TypeMismatch")

\* C4: getSize() of each of the ten concrete types returns bit-width/8, one
\* of 1, 2, 4, 8.
C4_SizeIsBitsOverEight ==
    (last.op = "getSize" /\ last.cls \in ConcreteTypes)
        => /\ last.exc = "none"
           /\ last.size = DeclaredBits[last.cls] \div 8
           /\ last.size \in {1, 2, 4, 8}

\* C5: get_serialize_format() of each concrete type is a fixed format,
\* big-endian for the multi-byte types, of the signedness/float kind of the
\* type's category, whose width in bytes equals the type's getSize().
C5_FormatMatchesTypeAndSize ==
    last.op = "get_serialize_format"
        => /\ last.exc = "none"
           /\ (DeclaredBits[last.cls] > 8 => last.fmt \in BigEndianFormats)
           /\ (last.cls \in SignedTypes => last.fmt \in SignedFormats)
           /\ (last.cls \in UnsignedTypes => last.fmt \in UnsignedFormats)
           /\ (last.cls \in {F32Type, F64Type} => last.fmt \in FloatFormats)
           /\ calcsize(last.fmt) = DeclaredBits[last.cls] \div 8
           /\ getSize(last.cls).exc = "none"
           /\ getSize(last.cls).ret = calcsize(last.fmt)

\* C6: validate of an integer type ends in exactly one of three ways, decided
\* in this order: TypeMismatch for a candidate that is not integral, else
\* TypeRange for one outside the range, else acceptance.
C6_IntegerValidateOutcomes ==
    (last.op = "validate" /\ last.cls \in IntTypes /\ last.arg.kind \in {"int", "float", "str"})
        => last.exc = (IF last.arg.kind # "int" THEN "TypeMismatch"
                       ELSE IF ~InRangeOf(last.cls, last.arg) THEN "TypeRange"
                       ELSE "none")

\* C7 (as stated): a width or format query on an instance that holds no
\* validated value raises NotInitialized.
C7_QueryBeforeValueRaises ==
    (last.op \in {"getSize", "get_serialize_format"} /\ last.cls = self.cls /\ self.val = None)
        => last.exc = "NotInitialized"

\* C7 (amended): the format query returns the type's fixed format whether or
\* not the instance holds a value, and neither the width query nor the format
\* query ever raises NotInitialized.
C7_QueriesIgnoreValue ==
    /\ last.op = "get_serialize_format"
          => (last.exc = "none" /\ last.fmt = get_serialize_format(last.cls))
    /\ last.op \in {"getSize", "get_serialize_format"} => last.exc # "NotInitialized"

C7_Witness ==
    /\ last.op = "get_serialize_format"
    /\ self.cls = I16Type
    /\ self.val = None
    /\ last.exc = "none"
    /\ last.fmt = ">h"

====
